---------------------------- MODULE Spec2Model ----------------------------
(***************************************************************************)
(* A model of axonion: the neuron state machine (src/nt/neuron.py), the    *)
(* stimulation generator (src/nt/stim.py), the quantizer (src/nt/daq.py)   *)
(* and the orchestration part of MainWindow (src/nt/gui.py).               *)
(*                                                                         *)
(* Numbers.  The program computes in binary floating point; the model      *)
(* computes in fixed point with the units below.  Every formula keeps the  *)
(* order of the operations of the source; divisions round to nearest.      *)
(*   time            1 unit = 0.005 ms   (UnitsPerMs units per ms)         *)
(*   v, prev_v       1 unit = 0.001 mV   (VS units per mV)                 *)
(*   m, h, n         1 unit = 0.0001     (GS units = 1.0)                  *)
(*   rate functions  1 unit = 0.001 /ms  (RS)                              *)
(*   ATP             1 unit = 0.000001   (AS units = 1.0)                  *)
(*   Ca              1 unit = 0.0001     (CS units = 1.0)                  *)
(*   mito, integrity, damage, health                                       *)
(*                   1 unit = 0.001 %    (PS units per %)                  *)
(*   dt_sec          1 unit = 0.001 s                                      *)
(*   stress          1 unit = 0.001                                        *)
(* exp is computed by Exp6 (table for the integer part of the exponent,    *)
(* polynomial for the fraction).                                           *)
(*                                                                         *)
(* Metabolic time.  neuron.py integrates the membrane in milliseconds      *)
(* (dt_ms) and the metabolism in seconds (dt_sec = dt_ms / 1000).  The     *)
(* metabolic thresholds are reached only after 10^5 .. 10^6 steps of       *)
(* 0.025 ms; the model multiplies dt_sec by Accel so that they are reached *)
(* within a few ticks.  Accel is a bound of the model, not of the program: *)
(* no formula below depends on its value.                                  *)
(*                                                                         *)
(* Randomness.  random.gauss and np.random.normal are pseudo random       *)
(* generators seeded from the environment: the seeds are chosen by Init,   *)
(* each draw advances its generator.                                       *)
(***************************************************************************)
EXTENDS Integers, Sequences, FiniteSets, TLC

UnitsPerMs == 2 * 100
VS == 10 * 100
GS == 100 * 100
RS == 10 * 100
AS == 1000 * 1000
CS == 100 * 100
PS == 10 * 100

Accel == 2000

Abs(x) == IF x < 0 THEN -x ELSE x
Min(a, b) == IF a < b THEN a ELSE b
Max(a, b) == IF a > b THEN a ELSE b
\* a / b rounded to the nearest integer, b > 0
Rnd(a, b) == (2 * a + b) \div (2 * b)
\* a faulty clamp that lets every value through
clamp_none(lo, hi, x) == x

\* max(lo, min(hi, x))
clamp(lo, hi, x) == Max(lo, Min(hi, x))

(***************************************************************************)
(* math.exp.  Exp6(a) = 10^6 * e^(a/1000), a in thousandths.               *)
(***************************************************************************)
ExpNegTab == <<367879, 135335, 49787, 18316, 6738, 2479, 912, 335, 123, 45>>
ExpPosTab == <<1000, 2718, 7389, 20086, 54598, 148413, 403429>>
ExpFrac(f) ==
    LET f2 == (f * f) \div 1000
    IN  1000 + f + f2 \div 2 + (f2 * f) \div 6000
             + (f2 * f2) \div 24000 + (((f2 * f2) \div 1000) * f) \div 120000
Exp6(a) ==
    LET k == a \div 1000
        f == a % 1000
    IN  IF k < -10 THEN 0
        ELSE IF k >= 7 THEN ExpPosTab[7] * ExpFrac(999)
        ELSE IF k < 0 THEN (ExpNegTab[-k] * ExpFrac(f)) \div 1000
        ELSE ExpPosTab[k + 1] * ExpFrac(f)

(***************************************************************************)
(* Neuron: the Hodgkin-Huxley rate functions, in 0.001/ms, of v in 0.001 mV*)
(***************************************************************************)
\* x / (1 - exp(-x/10)) for x = v + shift, scaled by c; the limit at x = 0
RateLimitForm(x, c, limit) ==
    LET den == (AS - Exp6(Rnd(-x, 10))) \div 1000
    IN  IF x = 0 \/ den = 0 THEN limit ELSE (c * Abs(x)) \div Abs(den)

alpha_m(vv) == RateLimitForm(vv + 40 * VS, 100, 1000)
beta_m(vv) == 4 * (Exp6(Rnd(-(vv + 65 * VS), 18)) \div 1000)
alpha_h(vv) == (7 * (Exp6(Rnd(-(vv + 65 * VS), 20)) \div 100)) \div 1000
beta_h(vv) == (1000 * AS) \div (AS + Exp6(Rnd(-(vv + 35 * VS), 10)))
alpha_n(vv) == RateLimitForm(vv + 55 * VS, 10, 100)
beta_n(vv) == (125 * (Exp6(Rnd(-(vv + 65 * VS), 80)) \div 1000)) \div 1000

(***************************************************************************)
(* Neuron: state, reset, kill, step                                        *)
(***************************************************************************)
FlagNames == {"flag_atp_low", "flag_ca_high", "flag_mito_stress",
              "flag_integrity_low", "flag_damage_high", "flag_cascade"}

\* a faulty reset that leaves a latched flag behind
reset_stale ==
    [v |-> -65 * VS, prev_v |-> -65 * VS, m |-> 500, h |-> 6000, n |-> 3200,
     w |-> 0, ATP |-> AS, mito |-> 100 * PS, Ca |-> 0, integrity |-> 100 * PS,
     damage |-> 0, health |-> 100 * PS, dead |-> FALSE,
     flag_atp_low |-> TRUE, flag_ca_high |-> FALSE, flag_mito_stress |-> FALSE,
     flag_integrity_low |-> FALSE, flag_damage_high |-> FALSE,
     flag_cascade |-> FALSE]

reset ==
    [v |-> -65 * VS, prev_v |-> -65 * VS,
     m |-> 500, h |-> 6000, n |-> 3200, w |-> 0,
     ATP |-> AS, mito |-> 100 * PS, Ca |-> 0,
     integrity |-> 100 * PS, damage |-> 0, health |-> 100 * PS,
     dead |-> FALSE,
     flag_atp_low |-> FALSE, flag_ca_high |-> FALSE,
     flag_mito_stress |-> FALSE, flag_integrity_low |-> FALSE,
     flag_damage_high |-> FALSE, flag_cascade |-> FALSE]

\* a faulty kill without the "if self.dead: return" guard
kill_always(s) ==
    [s EXCEPT !.dead = TRUE, !.v = 0, !.integrity = 0,
              !.damage = 100 * PS, !.health = 0, !.ATP = 0,
              !.mito = 0, !.Ca = 10 * CS]

kill(s) ==
    IF s.dead THEN s
    ELSE [s EXCEPT !.dead = TRUE, !.v = 0, !.integrity = 0,
                   !.damage = 100 * PS, !.health = 0, !.ATP = 0,
                   !.mito = 0, !.Ca = 10 * CS]

\* dt_sec = dt_ms / 1000.0, in 0.001 s, of dt_ms in time units
dt_sec(dt_ms) == Rnd(dt_ms * Accel, UnitsPerMs)

\* if kill_mode and not self.dead: ... (forced collapse)
forced_collapse(s, dt_ms) ==
    LET c == [s EXCEPT !.ATP = s.ATP - 5000 * dt_sec(dt_ms),
                       !.Ca = s.Ca + 20 * dt_sec(dt_ms),
                       !.damage = s.damage + 5 * dt_sec(dt_ms)]
    IN  IF c.ATP <= 0 \/ c.damage >= 100 * PS \/ c.Ca > 20 * CS
        THEN kill(c) ELSE c

\* a faulty dead branch that brings the neuron back to life
dead_step_revive(s, dt_ms, g) == [s EXCEPT !.dead = FALSE]

\* a faulty dead branch that also records the voltage it started from
dead_step_prev(s, dt_ms, g) ==
    [s EXCEPT !.v = s.v + Rnd((0 - s.v) * dt_sec(dt_ms), 5000) + g,
              !.prev_v = s.v]

\* if self.dead: v decays toward 0 with jitter g = random.gauss(0.0, 0.5)
dead_step(s, dt_ms, g) ==
    [s EXCEPT !.v = s.v + Rnd((0 - s.v) * dt_sec(dt_ms), 5000) + g]

\* x += (a * (1 - x) - b * x) * dt_ms * 0.5 ; x = max(0, min(1, x))
RateMax == 100 * RS
gate(x, a, b, dt_ms) ==
    LET a1 == Min(a, RateMax)
        b1 == Min(b, RateMax)
    IN  clamp(0, GS, x + Rnd(((a1 * (GS - x) - b1 * x) \div 1000) * dt_ms,
                             2 * UnitsPerMs))

\* membrane: gating update and voltage update with the pump
membrane(s, dt_ms, i_ext) ==
    LET vv == s.v
        m1 == gate(s.m, alpha_m(vv), beta_m(vv), dt_ms)
        h1 == gate(s.h, alpha_h(vv), beta_h(vv), dt_ms)
        n1 == gate(s.n, alpha_n(vv), beta_n(vv), dt_ms)
        m3 == ((((m1 * m1) \div GS) * m1) \div GS)
        n2 == (n1 * n1) \div GS
        INa == 120 * (((((m3 * h1) \div GS) * ((vv - 50 * VS) \div 10))) \div 1000)
        IK == 36 * ((((n2 * n2) \div GS) * ((vv + 77 * VS) \div 10)) \div 1000)
        IL == (vv + 54400) \div 2
        dv == i_ext * VS - INa - IK - IL
        v1 == vv + Rnd(dv * dt_ms, UnitsPerMs)
        pump_strength == (4 * s.ATP) \div 1000
        v2 == v1 + Rnd((((-65 * VS - v1) * pump_strength) \div 1000) * dt_ms,
                       1000 * UnitsPerMs)
    IN  [s EXCEPT !.m = m1, !.h = h1, !.n = n1, !.v = v2]

\* calcium: spike edge and clearance
calcium(s, dt_ms) ==
    LET spike == (s.prev_v < 0 /\ 0 <= s.v)
        ca0 == IF spike THEN s.Ca + 200 ELSE s.Ca
        ca_clear_rate == 50 + (2 * s.ATP) \div 1000
        ca1 == ca0 - Rnd(((ca0 * ca_clear_rate) \div 1000) * dt_sec(dt_ms), 1000)
    IN  [s EXCEPT !.Ca = IF ca1 < 0 THEN 0 ELSE ca1]

\* atp balance, clamped to [0, 1]
atp(s, dt_ms, i_ext) ==
    LET prod_rate == (8000 * s.mito) \div (100 * PS)
        pump_cost_rate == 700 * Abs(i_ext)
        ca_cost_rate == (6000 * s.Ca) \div CS
    IN  [s EXCEPT !.ATP = clamp(0, AS, s.ATP +
            Rnd((prod_rate - pump_cost_rate - ca_cost_rate) * dt_sec(dt_ms), 1000))]

\* mitochondria, clamped to [0, 100]
mitochondria(s, dt_ms, i_ext) ==
    LET mito_recovery_rate == (100 * PS - s.mito) \div 50
        load_term == Max(0, Abs(i_ext) - 15) \div 2
        ca_term == Max(0, s.Ca - 3000) \div 100
    IN  [s EXCEPT !.mito = clamp(0, 100 * PS, s.mito +
            Rnd((mito_recovery_rate - load_term - ca_term) * dt_sec(dt_ms), 1000))]

\* stress = voltage_term + ca_term + atp_term + mito_term, in 0.001
stress_of(s) ==
    Abs(s.v + 65 * VS) \div 250 + (3 * s.Ca) \div 20
        + (3 * (AS - s.ATP)) \div 2000 + (100 * PS - s.mito) \div 100

\* a faulty damage update without the "if stress > 1.0" guard
damage_health_signed(s, dt_ms) ==
    LET stress == (3 * (AS - s.ATP)) \div 2000
        dmg == clamp(0, 100 * PS, s.damage + ((stress - 1000) * dt_sec(dt_ms)) \div 2000)
    IN  [s EXCEPT !.damage = dmg,
                  !.health = clamp(0, 100 * PS, s.integrity - (7 * dmg) \div 10)]

\* damage / health
damage_health(s, dt_ms) ==
    LET stress == stress_of(s)
        integ == clamp(0, 100 * PS,
                   IF stress < 600
                   THEN s.integrity + Rnd(100 * dt_sec(dt_ms), 1000)
                   ELSE s.integrity - Rnd((stress - 600) * dt_sec(dt_ms), 1000))
        dmg == clamp(0, 100 * PS,
                   IF stress > 1000
                   THEN s.damage + Rnd((stress - 1000) * dt_sec(dt_ms), 2000)
                   ELSE s.damage)
    IN  [s EXCEPT !.integrity = integ, !.damage = dmg,
                  !.health = clamp(0, 100 * PS, integ - (7 * dmg) \div 10)]

\* a faulty update without the "if self.health <= 0.0" exit
alive_step_atp_only(s, dt_ms, i_ext) ==
    LET vv == s.v
        a == atp(calcium(membrane(s, dt_ms, i_ext), dt_ms), dt_ms, i_ext)
    IN  IF a.ATP <= 1000
        THEN [kill(a) EXCEPT !.prev_v = vv]
        ELSE [damage_health(mitochondria(a, dt_ms, i_ext), dt_ms)
                 EXCEPT !.prev_v = vv]

\* the update of a living neuron, after the forced-collapse prologue
alive_step(s, dt_ms, i_ext) ==
    LET vv == s.v
        a == atp(calcium(membrane(s, dt_ms, i_ext), dt_ms), dt_ms, i_ext)
    IN  IF a.ATP <= 1000
        THEN [kill(a) EXCEPT !.prev_v = vv]
        ELSE LET d == damage_health(mitochondria(a, dt_ms, i_ext), dt_ms)
             IN  IF d.health <= 0
                 THEN [kill(d) EXCEPT !.prev_v = vv]
                 ELSE [d EXCEPT !.prev_v = vv]

\* Neuron.step(dt_ms, i_ext, kill_mode); g is the value random.gauss returns
step(s, dt_ms, i_ext, kill_mode, g) ==
    LET c == IF kill_mode /\ ~s.dead THEN forced_collapse(s, dt_ms) ELSE s
    IN  IF c.dead THEN dead_step(c, dt_ms, g) ELSE alive_step(c, dt_ms, i_ext)

(***************************************************************************)
(* random.gauss(0.0, 0.5): a pseudo random generator.  rng is its state,   *)
(* gauss(r) the value drawn in state r (0.001 mV), next_rng(r) the state   *)
(* after the draw.                                                         *)
(***************************************************************************)
GaussTab == <<500, -250, 0, 250, -1000, 1000, -500, 750>>
gauss(r) == GaussTab[r + 1]
next_rng(r) == (5 * r + 3) % 8
MaxSeed == 0

\* whether step(s, dt_ms, i_ext, kill_mode) reaches the dead branch (draws gauss)
draws_gauss(s, dt_ms, kill_mode) ==
    IF kill_mode /\ ~s.dead THEN forced_collapse(s, dt_ms).dead ELSE s.dead

(***************************************************************************)
(* Stimulator                                                              *)
(***************************************************************************)
MODES == {"OFF", "CONSTANT", "STEP", "PULSE"}

StimulatorInit ==
    [mode |-> "OFF", amplitude |-> 10, duration |-> 500 * UnitsPerMs,
     frequency |-> 10, pulse_width |-> 5 * UnitsPerMs,
     protocol_start_time |-> 0,
     step_active |-> FALSE, step_start_time |-> 0,
     step_duration |-> 5 * UnitsPerMs]

\* a faulty set_mode that leaves a manual step in flight
set_mode_keep_step(st, mode, current_time) ==
    IF mode \in MODES
    THEN [st EXCEPT !.mode = mode, !.protocol_start_time = current_time]
    ELSE st

set_mode(st, mode, current_time) ==
    IF mode \in MODES
    THEN [st EXCEPT !.mode = mode, !.protocol_start_time = current_time,
                    !.step_active = FALSE]
    ELSE st

trigger_step(st, current_time) ==
    [st EXCEPT !.step_active = TRUE, !.step_start_time = current_time]

\* _step_current(t): <<current, stimulator after the call>>
step_current(st, t) ==
    IF ~st.step_active THEN <<0, st>>
    ELSE LET rel == t - st.step_start_time
         IN  IF 0 <= rel /\ rel < st.step_duration
             THEN <<st.amplitude, st>>
             ELSE <<0, [st EXCEPT !.step_active = FALSE]>>

\* a faulty PULSE branch that measures the phase from time 0
pulse_current_abs(st, t) ==
    LET rel_t == t - st.protocol_start_time
    IN  IF st.frequency <= 0 \/ rel_t < 0 THEN 0
        ELSE LET period == (1000 * UnitsPerMs) \div st.frequency
                 width == Min(st.pulse_width, period)
                 phase == t % period
             IN  IF period <= 0 THEN 0
                 ELSE IF phase < width THEN st.amplitude ELSE 0

\* the PULSE branch of current_at
pulse_current(st, t) ==
    LET rel_t == t - st.protocol_start_time
    IN  IF st.frequency <= 0 \/ rel_t < 0 THEN 0
        ELSE LET period == (1000 * UnitsPerMs) \div st.frequency
                 width == Min(st.pulse_width, period)
                 phase == rel_t % period
             IN  IF period <= 0 THEN 0
                 ELSE IF phase < width THEN st.amplitude ELSE 0

\* current_at(t): <<current, stimulator after the call>>
current_at(st, t) ==
    CASE st.mode = "OFF" -> <<0, st>>
      [] st.mode = "STEP" -> step_current(st, t)
      [] st.mode = "CONSTANT" -> <<st.amplitude, st>>
      [] st.mode = "PULSE" -> <<pulse_current(st, t), st>>
      [] OTHER -> <<0, st>>

(***************************************************************************)
(* DAQ.  Voltages are in 1/VS mV.  The grid of the converter,              *)
(* (max_v - min_v) / 2^adc_bits = 25/512 mV, is not a whole number of      *)
(* them, so quantize returns its value in 1/(VS * 2^adc_bits) mV, the      *)
(* unit in which the grid points are integers.                             *)
(***************************************************************************)
DaqInit ==
    [adc_bits |-> 12, noise_level |-> 500,
     voltage_range |-> <<-100 * VS, 100 * VS>>]

\* Python's round(a / b), b > 0: to the nearest integer, ties to even
round(a, b) ==
    LET q == a \div b
        r == a % b
    IN  IF 2 * r < b THEN q
        ELSE IF 2 * r > b THEN q + 1
        ELSE IF q % 2 = 0 THEN q ELSE q + 1

\* a faulty quantize without the clamp to the voltage range
quantize_unclamped(d, val) ==
    LET min_v == d.voltage_range[1]
        max_v == d.voltage_range[2]
        steps == 2 ^ d.adc_bits
    IN  round((val - min_v) * steps, max_v - min_v) * (max_v - min_v)
            + min_v * steps

\* quantize(val)
quantize(d, val) ==
    LET min_v == d.voltage_range[1]
        max_v == d.voltage_range[2]
        steps == 2 ^ d.adc_bits
        clamped == Max(min_v, Min(val, max_v))
    IN  round((clamped - min_v) * steps, max_v - min_v) * (max_v - min_v)
            + min_v * steps

\* np.random.normal(0, scale) drawn in generator state r: scale times the
\* standard normal deviate GaussTab[r + 1] / 500
normal(scale, r) == Rnd(scale * GaussTab[r + 1], 500)

\* acquire_sample(true_voltage), numpy's generator being in state r
acquire_sample(d, true_voltage, r) ==
    quantize(d, true_voltage + normal(d.noise_level, r))

(***************************************************************************)
(* MainWindow: the orchestrator                                            *)
(***************************************************************************)
VARIABLES
    neuron,                 \* self.neuron: the Neuron's fields
    stim,                   \* self.stim: the Stimulator's fields
    rng,                    \* state of Python's random generator
    daq,                    \* self.daq: the DAQ's fields
    np_rng,                 \* state of numpy's random generator
    running,                \* self.running
    time_ms,                \* self.time_ms, in time units
    time_since_last_plot,   \* self.time_since_last_plot, in time units
    time_scale_factor,      \* self.time_scale_factor, in tenths
    last_step_time_ms,      \* self.last_step_time_ms, None or a time
    step_recovery_logged,   \* self.step_recovery_logged
    run_log,                \* notifications logged since the run was started
    stepped_dead,           \* Neuron.step calls of update_loop on a neuron
                            \* that was dead at the call, since the run started
    steps_run,              \* Neuron.step calls of update_loop since the run
                            \* started
    hist,                   \* the history sequences self.t_data .. meta_damage
    buf,                    \* self.window_sec and self.vm_history_seconds, in
                            \* ms, with the capacities derived from them:
                            \* self.plot_buffer_size, self.vm_history_maxlen
    iter_left,              \* position of update_loop: iterations of its for
                            \* loop still to run in the current tick, 0
                            \* between ticks
    last_op,                \* the interface operation executed last; of the
                            \* MainWindow's handlers, deliver_step_pulse
                            \* records the branch it took, the others "gui"
    ret,                    \* the value the last step / current_at returned
    args,                   \* the arguments of the last Neuron / Stimulator call
    calls,                  \* number of calls / user commands so far
    ticks                   \* number of timer ticks so far

vars == <<neuron, stim, rng, daq, np_rng, running, time_ms,
          time_since_last_plot, time_scale_factor, last_step_time_ms,
          step_recovery_logged, run_log, stepped_dead, steps_run, hist,
          buf, iter_left, last_op, ret, args, calls, ticks>>

winVars == <<running, time_ms, time_since_last_plot, time_scale_factor,
             last_step_time_ms, step_recovery_logged, run_log, stepped_dead,
             steps_run, hist, buf, iter_left>>

daqVars == <<daq, np_rng>>

None == 0 - 1

dt == 5
timer_interval == 20 * UnitsPerMs
plot_dt_ms == 1 * UnitsPerMs
\* int(self.window_sec * 1000 / self.plot_dt_ms), the width given in ms
buffer_size(window_sec) == (window_sec * UnitsPerMs) \div plot_dt_ms

\* maxlen of _apply_vm_history_limit, the retention length given in ms
history_maxlen(seconds) ==
    IF seconds = None THEN None
    ELSE Max(1, (seconds * UnitsPerMs) \div plot_dt_ms)

\* window_sec = 2.0 and vm_history_seconds = None of __init__
BufInit ==
    [window_sec |-> 2 * 1000, plot_buffer_size |-> buffer_size(2 * 1000),
     vm_history_seconds |-> None, vm_history_maxlen |-> None]

HistNames == {"t_data", "v_data", "t_full", "v_full", "meta_t", "meta_atp",
              "meta_ca", "meta_mito", "meta_integrity", "meta_damage"}
\* every history sequence after clear()
NoHist == [k \in HistNames |-> <<>>]

\* a faulty append that never drops an entry
deque_append_all(q, x, maxlen) == Append(q, x)

\* deque(maxlen = maxlen).append(x): the oldest entry is dropped when full;
\* maxlen None is an unbounded deque
deque_append(q, x, maxlen) ==
    IF maxlen = None THEN Append(q, x)
    ELSE IF maxlen = 0 THEN <<>>
    ELSE IF Len(q) >= maxlen THEN Append(Tail(q), x)
    ELSE Append(q, x)

\* a faulty rebuild that keeps the oldest entries
deque_of_oldest(old, n, maxlen) ==
    IF maxlen = None \/ Len(old) <= maxlen THEN old ELSE SubSeq(old, 1, maxlen)

\* deque(old[-n:], maxlen = maxlen): the slice old[-n:] is the last n entries
\* (all of them for n = 0 or n >= len(old)), of which the deque keeps the
\* last maxlen
deque_of(old, n, maxlen) ==
    LET slice == IF n = 0 \/ n >= Len(old) THEN old
                 ELSE SubSeq(old, Len(old) - n + 1, Len(old))
    IN  IF maxlen = None \/ Len(slice) <= maxlen THEN slice
        ELSE SubSeq(slice, Len(slice) - maxlen + 1, Len(slice))

\* _apply_vm_history_limit on the histories h, with the fields b
apply_vm_history_limit(h, b) ==
    LET maxlen == history_maxlen(b.vm_history_seconds)
    IN  [h EXCEPT
           !.t_full = IF maxlen # None THEN deque_of(h.t_full, maxlen, maxlen)
                      ELSE deque_of(h.t_full, 0, maxlen),
           !.v_full = IF maxlen # None THEN deque_of(h.v_full, maxlen, maxlen)
                      ELSE deque_of(h.v_full, 0, maxlen)]
TIME_SCALES == {1, 5, 10, 50, 200}

Notifications == {"atp_low", "ca_high", "mito_stress", "integrity_low",
                  "damage_high", "cascade", "died", "recovery"}
NoLog == [k \in Notifications |-> 0]

\* the MainWindow state the handlers below read and write, as one record
Win ==
    [neuron |-> neuron, stim |-> stim, rng |-> rng, running |-> running,
     time_ms |-> time_ms, time_since_last_plot |-> time_since_last_plot,
     last_step_time_ms |-> last_step_time_ms,
     step_recovery_logged |-> step_recovery_logged,
     run_log |-> run_log, stepped_dead |-> stepped_dead,
     steps_run |-> steps_run, hist |-> hist, buf |-> buf, daq |-> daq,
     np_rng |-> np_rng]

\* a faulty latch without the "and not n.<flag>" guard
latch_again(g, cond, flag, msg) ==
    IF cond
    THEN [g EXCEPT !.neuron[flag] = TRUE, !.run_log[msg] = @ + 1]
    ELSE g

\* if <condition> and not n.<flag>: self.log(...); n.<flag> = True
latch(g, cond, flag, msg) ==
    IF cond /\ ~g.neuron[flag]
    THEN [g EXCEPT !.neuron[flag] = TRUE, !.run_log[msg] = @ + 1]
    ELSE g

\* a faulty recovery notice that does not look at the stimulation mode
recovery_notice_any_mode(g) ==
    IF /\ g.last_step_time_ms # None
       /\ ~g.step_recovery_logged
       /\ g.time_ms - g.last_step_time_ms > 2 * UnitsPerMs
       /\ Abs(g.neuron.v + 65 * VS) < 1 * VS
    THEN [g EXCEPT !.step_recovery_logged = TRUE, !.run_log["recovery"] = @ + 1]
    ELSE g

\* the STEP-mode recovery notice at the end of update_event_logs
recovery_notice(g) ==
    IF /\ g.stim.mode = "STEP"
       /\ g.last_step_time_ms # None
       /\ ~g.step_recovery_logged
       /\ g.time_ms - g.last_step_time_ms > 2 * UnitsPerMs
       /\ Abs(g.neuron.v + 65 * VS) < 1 * VS
    THEN [g EXCEPT !.step_recovery_logged = TRUE, !.run_log["recovery"] = @ + 1]
    ELSE g

update_event_logs(g) ==
    LET n == g.neuron
        stim_on == (g.stim.mode # "OFF")
    IN  IF n.dead /\ g.running
        THEN [g EXCEPT !.running = FALSE, !.run_log["died"] = @ + 1]
        ELSE LET g1 == latch(g, n.ATP < 300000, "flag_atp_low", "atp_low")
                 g2 == latch(g1, n.Ca > 1 * CS, "flag_ca_high", "ca_high")
                 g3 == latch(g2, n.mito < 80 * PS, "flag_mito_stress", "mito_stress")
                 g4 == latch(g3, n.integrity < 60 * PS, "flag_integrity_low",
                             "integrity_low")
                 g5 == latch(g4, n.damage > 20 * PS, "flag_damage_high",
                             "damage_high")
                 g6 == latch(g5, n.ATP < 200000 /\ n.Ca > 5000 /\ stim_on,
                             "flag_cascade", "cascade")
             IN  recovery_notice(g6)

\* a faulty steps_to_run that ignores the time scale factor
steps_to_run_unscaled(factor) == timer_interval \div dt

\* steps_to_run of update_loop
steps_to_run(factor) ==
    LET k == (timer_interval * factor) \div (dt * 10)
    IN  IF k = 0 /\ factor > 0 THEN 1 ELSE k

\* the body of "if self.time_since_last_plot >= self.plot_dt_ms" of the loop,
\* once the remainder has been reduced: one entry for every history; t_sec is
\* kept in time units; the live window is a deque of plot_buffer_size
\* entries, the voltage history a deque of vm_history_maxlen entries
sample(g, v_true) ==
    LET v_meas == acquire_sample(g.daq, v_true, g.np_rng)
        t_sec == g.time_ms
        h == g.hist
    IN  [g EXCEPT
           !.np_rng = next_rng(g.np_rng),
           !.hist =
              [t_data |-> deque_append(h.t_data, t_sec,
                                       g.buf.plot_buffer_size),
               v_data |-> deque_append(h.v_data, v_meas,
                                       g.buf.plot_buffer_size),
               t_full |-> deque_append(h.t_full, t_sec,
                                       g.buf.vm_history_maxlen),
               v_full |-> deque_append(h.v_full, v_meas,
                                       g.buf.vm_history_maxlen),
               meta_t |-> Append(h.meta_t, t_sec),
               meta_atp |-> Append(h.meta_atp, g.neuron.ATP),
               meta_ca |-> Append(h.meta_ca, g.neuron.Ca),
               meta_mito |-> Append(h.meta_mito, g.neuron.mito),
               meta_integrity |-> Append(h.meta_integrity, g.neuron.integrity),
               meta_damage |-> Append(h.meta_damage, g.neuron.damage)]]

\* a faulty iteration that never reduces the carry-over remainder
loop_body_no_carry(g) ==
    LET c == current_at(g.stim, g.time_ms)
        drawn == draws_gauss(g.neuron, dt, FALSE)
        tslp == g.time_since_last_plot + dt
        g1 == [g EXCEPT
                 !.stim = c[2],
                 !.neuron = step(g.neuron, dt, c[1], FALSE, gauss(g.rng)),
                 !.rng = IF drawn THEN next_rng(g.rng) ELSE g.rng,
                 !.time_ms = g.time_ms + dt,
                 !.time_since_last_plot = tslp,
                 !.stepped_dead = IF g.neuron.dead THEN @ + 1 ELSE @,
                 !.steps_run = @ + 1]
    IN  IF tslp >= plot_dt_ms THEN sample(g1, g1.neuron.v) ELSE g1

\* one iteration of the for loop of update_loop
loop_body(g) ==
    LET c == current_at(g.stim, g.time_ms)
        drawn == draws_gauss(g.neuron, dt, FALSE)
        tslp == g.time_since_last_plot + dt
        g1 == [g EXCEPT
                 !.stim = c[2],
                 !.neuron = step(g.neuron, dt, c[1], FALSE, gauss(g.rng)),
                 !.rng = IF drawn THEN next_rng(g.rng) ELSE g.rng,
                 !.time_ms = g.time_ms + dt,
                 !.time_since_last_plot =
                     IF tslp >= plot_dt_ms THEN tslp - plot_dt_ms ELSE tslp,
                 !.stepped_dead = IF g.neuron.dead THEN @ + 1 ELSE @,
                 !.steps_run = @ + 1]
    IN  IF tslp >= plot_dt_ms THEN sample(g1, g1.neuron.v) ELSE g1

RECURSIVE for_loop(_, _)
for_loop(g, k) ==
    IF k = 0 THEN g
    ELSE IF k = 1 THEN loop_body(g)
    ELSE LET half == for_loop(g, k \div 2)
         IN  IF half.time_ms >= 0 THEN for_loop(half, k - k \div 2) ELSE half

\* update_loop, entered with self.running true
update_loop(g, factor) == update_event_logs(for_loop(g, steps_to_run(factor)))

\* _reset_log_flags
reset_log_flags(s) ==
    [s EXCEPT !.flag_atp_low = FALSE, !.flag_ca_high = FALSE,
              !.flag_mito_stress = FALSE, !.flag_integrity_low = FALSE,
              !.flag_damage_high = FALSE, !.flag_cascade = FALSE]

(***************************************************************************)
(* The state after construction: MainWindow.__init__                       *)
(***************************************************************************)
Init ==
    /\ neuron = reset
    /\ stim = StimulatorInit
    /\ rng \in 0 .. MaxSeed
    /\ daq = DaqInit
    /\ np_rng \in 0 .. MaxSeed
    /\ running = FALSE
    /\ time_ms = 0
    /\ time_since_last_plot = 0
    /\ time_scale_factor = 10
    /\ last_step_time_ms = None
    /\ step_recovery_logged = FALSE
    /\ run_log = NoLog
    /\ stepped_dead = 0
    /\ steps_run = 0
    /\ hist = NoHist
    /\ buf = BufInit
    /\ iter_left = 0
    /\ last_op = "init"
    /\ ret = 0
    /\ args = <<>>
    /\ calls = 0
    /\ ticks = 0

(***************************************************************************)
(* Spec: the Neuron driven through its interface (reset, kill, step)       *)
(***************************************************************************)
MaxCalls == 3
DtInputs == {0, dt, 2 * dt}
IExtInputs == {-20, 0, 40}

Reset ==
    /\ calls < MaxCalls
    /\ neuron' = reset
    /\ last_op' = "reset"
    /\ args' = <<>>
    /\ calls' = calls + 1
    /\ UNCHANGED <<stim, rng, daqVars, winVars, ret, ticks>>

Kill ==
    /\ calls < MaxCalls
    /\ neuron' = kill(neuron)
    /\ last_op' = "kill"
    /\ args' = <<>>
    /\ calls' = calls + 1
    /\ UNCHANGED <<stim, rng, daqVars, winVars, ret, ticks>>

Step ==
    /\ calls < MaxCalls
    /\ \E dt_ms \in DtInputs, i_ext \in IExtInputs, kill_mode \in BOOLEAN :
          /\ neuron' = step(neuron, dt_ms, i_ext, kill_mode, gauss(rng))
          /\ rng' = IF draws_gauss(neuron, dt_ms, kill_mode)
                    THEN next_rng(rng) ELSE rng
          /\ args' = <<dt_ms, i_ext, kill_mode>>
    /\ ret' = neuron'.v
    /\ last_op' = "step"
    /\ calls' = calls + 1
    /\ UNCHANGED <<stim, daqVars, winVars, ticks>>

\* n.flag_x = True: the assignment a client of the Neuron (update_event_logs)
\* makes to one of its flag attributes
Latch ==
    /\ calls < MaxCalls
    /\ \E f \in FlagNames : neuron' = [neuron EXCEPT ![f] = TRUE]
    /\ last_op' = "latch"
    /\ args' = <<>>
    /\ calls' = calls + 1
    /\ UNCHANGED <<stim, rng, daqVars, winVars, ret, ticks>>

Next == Reset \/ Kill \/ Step \/ Latch

Spec == Init /\ [][Next]_vars

(***************************************************************************)
(* SpecRun: the Neuron stepped again and again with the orchestrator's dt  *)
(* under a current chosen at the first step and held, as update_loop steps *)
(* it in CONSTANT mode; every step is a state                              *)
(***************************************************************************)
MaxRunSteps == 6100
RunCurrents == {-16, 10, 40}

RunStep ==
    /\ calls < MaxRunSteps
    /\ \E i_ext \in (IF calls = 0 THEN RunCurrents ELSE {args[2]}) :
          /\ neuron' = step(neuron, dt, i_ext, FALSE, gauss(rng))
          /\ args' = <<dt, i_ext, FALSE>>
    /\ rng' = IF draws_gauss(neuron, dt, FALSE) THEN next_rng(rng) ELSE rng
    /\ ret' = neuron'.v
    /\ last_op' = "step"
    /\ calls' = calls + 1
    /\ UNCHANGED <<stim, daqVars, winVars, ticks>>

SpecRun == Init /\ [][RunStep]_vars

(***************************************************************************)
(* SpecStim: the Stimulator driven through its interface                   *)
(***************************************************************************)
StimTimes == {0, 500, 1000, 20000, 20500}
ModeInputs == MODES \cup {"RAMP"}
AmpInputs == {10, 40}
FreqInputs == {0, 10, 400}

StimSetMode ==
    /\ \E mode \in ModeInputs, t \in StimTimes :
          /\ stim' = set_mode(stim, mode, t)
          /\ args' = <<mode, t>>
    /\ last_op' = "set_mode"
    /\ UNCHANGED <<neuron, rng, daqVars, winVars, ret, calls, ticks>>

StimTriggerStep ==
    /\ \E t \in StimTimes :
          /\ stim' = trigger_step(stim, t)
          /\ args' = <<t>>
    /\ last_op' = "trigger_step"
    /\ UNCHANGED <<neuron, rng, daqVars, winVars, ret, calls, ticks>>

StimCurrentAt ==
    /\ \E t \in StimTimes :
          /\ ret' = current_at(stim, t)[1]
          /\ stim' = current_at(stim, t)[2]
          /\ args' = <<t>>
    /\ last_op' = "current_at"
    /\ UNCHANGED <<neuron, rng, daqVars, winVars, calls, ticks>>

StimSetAmplitude ==
    /\ \E a \in AmpInputs :
          /\ stim' = [stim EXCEPT !.amplitude = a]
          /\ args' = <<a>>
    /\ last_op' = "amplitude"
    /\ UNCHANGED <<neuron, rng, daqVars, winVars, ret, calls, ticks>>

\* stim.frequency = f: the assignment a client makes to the public parameter
StimSetFrequency ==
    /\ \E f \in FreqInputs :
          /\ stim' = [stim EXCEPT !.frequency = f]
          /\ args' = <<f>>
    /\ last_op' = "frequency"
    /\ UNCHANGED <<neuron, rng, daqVars, winVars, ret, calls, ticks>>

NextStim ==
    \/ StimSetMode \/ StimTriggerStep \/ StimCurrentAt \/ StimSetAmplitude
    \/ StimSetFrequency

SpecStim == Init /\ [][NextStim]_vars

(***************************************************************************)
(* SpecGui: MainWindow driven by the user's commands and the timer         *)
(***************************************************************************)
MaxCmds == 4
MaxTicks == 2
TimeScaleInputs == {1, 10}

\* toggle_run
ToggleRun ==
    /\ calls < MaxCmds
    /\ IF running
       THEN /\ running' = FALSE
            /\ UNCHANGED <<neuron, time_ms, time_since_last_plot,
                           last_step_time_ms, step_recovery_logged, run_log,
                           stepped_dead, steps_run, hist, buf>>
       ELSE /\ neuron' = reset_log_flags(reset)
            /\ time_ms' = 0
            /\ time_since_last_plot' = 0
            /\ last_step_time_ms' = None
            /\ step_recovery_logged' = FALSE
            /\ running' = TRUE
            /\ run_log' = NoLog
            /\ stepped_dead' = 0
            /\ steps_run' = 0
            /\ hist' = apply_vm_history_limit(NoHist, buf)
            /\ buf' = [buf EXCEPT !.vm_history_maxlen =
                                     history_maxlen(buf.vm_history_seconds)]
    /\ last_op' = "gui"
    /\ calls' = calls + 1
    /\ UNCHANGED <<stim, rng, daqVars, time_scale_factor, iter_left, ret, args,
                   ticks>>

\* kill_cell
KillCell ==
    /\ calls < MaxCmds
    /\ neuron' = kill(neuron)
    /\ last_op' = "gui"
    /\ calls' = calls + 1
    /\ UNCHANGED <<stim, rng, daqVars, winVars, ret, args, ticks>>

\* change_mode, from the mode selector's currentTextChanged
ChangeMode ==
    /\ calls < MaxCmds
    /\ \E mode \in MODES \ {stim.mode} : stim' = set_mode(stim, mode, time_ms)
    /\ last_op' = "gui"
    /\ calls' = calls + 1
    /\ UNCHANGED <<neuron, rng, daqVars, winVars, ret, args, ticks>>

\* on_amp_changed, from the amplitude slider's valueChanged
OnAmpChanged ==
    /\ calls < MaxCmds
    /\ \E val \in AmpInputs \ {stim.amplitude} :
          stim' = [stim EXCEPT !.amplitude = val]
    /\ last_op' = "gui"
    /\ calls' = calls + 1
    /\ UNCHANGED <<neuron, rng, daqVars, winVars, ret, args, ticks>>

\* a faulty deliver_step_pulse without the "if not self.running" guard
DeliverStepPulseStopped ==
    /\ calls < MaxCmds
    /\ IF stim.mode # "STEP"
       THEN /\ last_op' = "deliver_step_pulse: not in STEP mode"
            /\ UNCHANGED <<stim, last_step_time_ms, step_recovery_logged>>
       ELSE /\ stim' = trigger_step(stim, time_ms)
            /\ last_step_time_ms' = time_ms
            /\ step_recovery_logged' = FALSE
            /\ last_op' = "deliver_step_pulse: delivered"
    /\ calls' = calls + 1
    /\ UNCHANGED <<neuron, rng, daqVars, running, time_ms,
                   time_since_last_plot, time_scale_factor, run_log,
                   stepped_dead, steps_run, hist, buf, iter_left, ret, args,
                   ticks>>

\* deliver_step_pulse
DeliverStepPulse ==
    /\ calls < MaxCmds
    /\ IF stim.mode # "STEP"
       THEN /\ last_op' = "deliver_step_pulse: not in STEP mode"
            /\ UNCHANGED <<stim, last_step_time_ms, step_recovery_logged>>
       ELSE IF ~running
       THEN /\ last_op' = "deliver_step_pulse: stopped"
            /\ UNCHANGED <<stim, last_step_time_ms, step_recovery_logged>>
       ELSE /\ stim' = trigger_step(stim, time_ms)
            /\ last_step_time_ms' = time_ms
            /\ step_recovery_logged' = FALSE
            /\ last_op' = "deliver_step_pulse: delivered"
    /\ calls' = calls + 1
    /\ UNCHANGED <<neuron, rng, daqVars, running, time_ms,
                   time_since_last_plot, time_scale_factor, run_log,
                   stepped_dead, steps_run, hist, buf, iter_left, ret, args,
                   ticks>>

\* set_time_scale, from the Time Scale menu
SetTimeScale ==
    /\ calls < MaxCmds
    /\ \E factor \in TimeScaleInputs \ {time_scale_factor} :
          time_scale_factor' = factor
    /\ last_op' = "gui"
    /\ calls' = calls + 1
    /\ UNCHANGED <<neuron, stim, rng, daqVars, running, time_ms,
                   time_since_last_plot, last_step_time_ms,
                   step_recovery_logged, run_log, stepped_dead, steps_run,
                   hist, buf, iter_left, ret, args, ticks>>

\* the MainWindow fields after a handler that leaves them as in g
Becomes(g) ==
    /\ neuron' = g.neuron
    /\ stim' = g.stim
    /\ rng' = g.rng
    /\ running' = g.running
    /\ time_ms' = g.time_ms
    /\ time_since_last_plot' = g.time_since_last_plot
    /\ last_step_time_ms' = g.last_step_time_ms
    /\ step_recovery_logged' = g.step_recovery_logged
    /\ run_log' = g.run_log
    /\ stepped_dead' = g.stepped_dead
    /\ steps_run' = g.steps_run
    /\ hist' = g.hist
    /\ np_rng' = g.np_rng

\* update_loop, from the timer: "if not self.running: return", else the
\* loop; at most max_ticks ticks run the loop
update_loop_tick(max_ticks) ==
    \/ /\ ~running
       /\ last_op' = "update_loop: not running"
       /\ UNCHANGED <<neuron, stim, rng, daqVars, winVars, ret, args, calls,
                      ticks>>
    \/ /\ running
       /\ ticks < max_ticks
       /\ Becomes(update_loop(Win, time_scale_factor))
       /\ last_op' = "gui"
       /\ ticks' = ticks + 1
       /\ UNCHANGED <<daq, time_scale_factor, buf, iter_left, ret, args,
                      calls>>

UpdateLoop == update_loop_tick(MaxTicks)

NextGui ==
    \/ ToggleRun \/ KillCell \/ ChangeMode \/ OnAmpChanged
    \/ DeliverStepPulse \/ SetTimeScale \/ UpdateLoop

SpecGui == Init /\ [][NextGui]_vars

(***************************************************************************)
(* SpecLoop: update_loop taken one iteration of its for loop at a time.    *)
(* The handler runs to completion, so the commands (here start / stop and  *)
(* the time scale) arrive only between ticks; the event logs are updated   *)
(* with the last iteration of a tick.                                      *)
(***************************************************************************)
LoopToggleRun == iter_left = 0 /\ ToggleRun

LoopSetTimeScale == iter_left = 0 /\ SetTimeScale

LoopIteration ==
    /\ running
    /\ iter_left = 0 => ticks < MaxTicks /\ steps_to_run(time_scale_factor) > 0
    /\ Becomes(IF iter_left = 1
                  \/ (iter_left = 0 /\ steps_to_run(time_scale_factor) = 1)
               THEN update_event_logs(loop_body(Win))
               ELSE loop_body(Win))
    /\ iter_left' = (IF iter_left = 0 THEN steps_to_run(time_scale_factor)
                                      ELSE iter_left) - 1
    /\ ticks' = IF iter_left = 0 THEN ticks + 1 ELSE ticks
    /\ last_op' = "gui"
    /\ UNCHANGED <<daq, time_scale_factor, buf, ret, args, calls>>

NextLoop == LoopToggleRun \/ LoopSetTimeScale \/ LoopIteration

SpecLoop == Init /\ [][NextLoop]_vars

(***************************************************************************)
(* SpecHist: the history buffers.  MainWindow driven by start / stop, the  *)
(* Voltage Window and Voltage History Length commands and the timer.  The  *)
(* widths are those of the Voltage Window menu; the retention length is    *)
(* a short one (0.05 s), which set_voltage_history_length accepts like     *)
(* the 30 s, 2 min and 10 min of its menu, so that the history fills       *)
(* within a few ticks.                                                     *)
(***************************************************************************)
MaxHistTicks == 6
WindowInputs == {100, 2 * 1000}
HistoryInputs == {None, 50}

\* set_voltage_window
SetVoltageWindow ==
    /\ calls < MaxCmds
    /\ \E width_sec \in WindowInputs :
          LET n == buffer_size(width_sec)
          IN  /\ buf' = [buf EXCEPT !.window_sec = width_sec,
                                    !.plot_buffer_size = n]
              /\ hist' = [hist EXCEPT !.t_data = deque_of(@, n, n),
                                      !.v_data = deque_of(@, n, n)]
              /\ args' = <<width_sec>>
    /\ last_op' = "set_voltage_window"
    /\ calls' = calls + 1
    /\ UNCHANGED <<neuron, stim, rng, daqVars, running, time_ms,
                   time_since_last_plot, time_scale_factor, last_step_time_ms,
                   step_recovery_logged, run_log, stepped_dead, steps_run,
                   iter_left, ret, ticks>>

\* set_voltage_history_length
SetVoltageHistoryLength ==
    /\ calls < MaxCmds
    /\ \E seconds \in HistoryInputs :
          LET b == [buf EXCEPT !.vm_history_seconds = seconds,
                               !.vm_history_maxlen = history_maxlen(seconds)]
          IN  /\ buf' = b
              /\ hist' = apply_vm_history_limit(hist, b)
              /\ args' = <<seconds>>
    /\ last_op' = "set_voltage_history_length"
    /\ calls' = calls + 1
    /\ UNCHANGED <<neuron, stim, rng, daqVars, running, time_ms,
                   time_since_last_plot, time_scale_factor, last_step_time_ms,
                   step_recovery_logged, run_log, stepped_dead, steps_run,
                   iter_left, ret, ticks>>

HistUpdateLoop == update_loop_tick(MaxHistTicks)

NextHist ==
    \/ ToggleRun \/ SetVoltageWindow \/ SetVoltageHistoryLength
    \/ HistUpdateLoop

SpecHist == Init /\ [][NextHist]_vars

(***************************************************************************)
(* SpecDaq: the DAQ driven through its interface                           *)
(***************************************************************************)
\* true voltages in 1/VS mV: far outside, just outside, on and inside the
\* range, on and between grid points
VoltInputs == {-300 * VS, -100 * VS - 1, -100 * VS, -65 * VS, -12, 0, 24, 49,
               40 * VS, 100 * VS - 20, 100 * VS, 100 * VS + 1, 300 * VS}
NoiseInputs == {0, 500, 20 * VS}

DaqQuantize ==
    /\ \E val \in VoltInputs :
          /\ ret' = quantize(daq, val)
          /\ args' = <<val>>
    /\ last_op' = "quantize"
    /\ UNCHANGED <<neuron, stim, rng, daqVars, winVars, calls, ticks>>

DaqAcquireSample ==
    /\ \E true_voltage \in VoltInputs :
          /\ ret' = acquire_sample(daq, true_voltage, np_rng)
          /\ args' = <<true_voltage>>
    /\ np_rng' = next_rng(np_rng)
    /\ last_op' = "acquire_sample"
    /\ UNCHANGED <<neuron, stim, rng, daq, winVars, calls, ticks>>

\* daq.noise_level = x: the assignment a client makes to the public parameter
DaqSetNoiseLevel ==
    /\ \E x \in NoiseInputs \ {daq.noise_level} :
          daq' = [daq EXCEPT !.noise_level = x]
    /\ last_op' = "noise_level"
    /\ args' = <<>>
    /\ UNCHANGED <<neuron, stim, rng, np_rng, winVars, ret, calls, ticks>>

NextDaq == DaqQuantize \/ DaqAcquireSample \/ DaqSetNoiseLevel

SpecDaq == Init /\ [][NextDaq]_vars

(***************************************************************************)
(* Properties of the Neuron, checked under Spec                            *)
(***************************************************************************)

\* C1: after any sequence of reset / step(dt >= 0, i_ext, kill_mode) / kill
\* calls, m, h, n lie in [0, 1], ATP in [0, 1], mito, integrity and damage
\* in [0, 100], and Ca >= 0.
C1_StateRanges ==
    /\ 0 <= neuron.m /\ neuron.m <= GS
    /\ 0 <= neuron.h /\ neuron.h <= GS
    /\ 0 <= neuron.n /\ neuron.n <= GS
    /\ 0 <= neuron.ATP /\ neuron.ATP <= AS
    /\ 0 <= neuron.mito /\ neuron.mito <= 100 * PS
    /\ 0 <= neuron.integrity /\ neuron.integrity <= 100 * PS
    /\ 0 <= neuron.damage /\ neuron.damage <= 100 * PS
    /\ 0 <= neuron.Ca

\* a living neuron after a forced-collapse step: ATP drawn down, damage added
C1_Witness ==
    /\ last_op = "step"
    /\ ~neuron.dead
    /\ neuron.damage > 0
    /\ neuron.ATP < AS

\* C2: dead is a one-way flag: no step and no kill makes a dead neuron alive
\* again; reset does.
C2_DeadOneWay ==
    [][/\ (neuron.dead /\ last_op' # "reset" => neuron'.dead)
       /\ (last_op' = "reset" => ~neuron'.dead)]_vars

\* a dead neuron that has been stepped: v has left the 0 kill() gave it
C2_Witness == neuron.dead /\ neuron.v # 0 /\ last_op = "step"

\* C3: kill() is idempotent, and on a dead neuron it changes no field.
C3_KillIdempotent ==
    /\ kill(kill(neuron)) = kill(neuron)
    /\ neuron.dead => kill(neuron) = neuron

\* kill() called on a dead neuron whose v has been jittered away from 0
C3_Witness == neuron.dead /\ neuron.v # 0 /\ last_op = "kill"

\* C4: from any reachable state reset() yields exactly the initial state:
\* v = prev_v = -65, m = 0.05, h = 0.6, n = 0.32, ATP = 1, mito = 100, Ca = 0,
\* integrity = 100, damage = 0, health = 100, dead false, six flags false.
C4_ResetIsInitial ==
    [][last_op' = "reset" =>
         /\ neuron'.v = -65 * VS /\ neuron'.prev_v = -65 * VS
         /\ 20 * neuron'.m = GS /\ 10 * neuron'.h = 6 * GS
         /\ 100 * neuron'.n = 32 * GS
         /\ neuron'.ATP = AS /\ neuron'.mito = 100 * PS /\ neuron'.Ca = 0
         /\ neuron'.integrity = 100 * PS /\ neuron'.damage = 0
         /\ neuron'.health = 100 * PS /\ ~neuron'.dead
         /\ \A f \in FlagNames : ~neuron'[f]
         /\ DOMAIN neuron' = DOMAIN neuron]_vars

\* reset() called after a dead neuron was stepped (the generator has drawn)
C4_Witness == last_op = "reset" /\ rng = next_rng(0) /\ ~neuron.dead

\* C5: for every transition that is not a reset, damage' >= damage.
C5_DamageMonotone ==
    [][last_op' # "reset" => neuron'.damage >= neuron.damage]_vars

\* damage accumulated by the stress rule in a living neuron (the forced
\* collapse adds 5 * dt_sec, a multiple of 0.025 for the steps of DtInputs)
C5_Witness ==
    /\ last_op = "step"
    /\ ~neuron.dead
    /\ neuron.damage > 0
    /\ neuron.damage % 25 # 0

(***************************************************************************)
(* Properties of the Stimulator, checked under SpecStim                    *)
(***************************************************************************)

\* C8: set_mode(mode, t) with a mode that is not OFF / CONSTANT / STEP / PULSE
\* changes nothing; otherwise afterwards mode is the argument,
\* protocol_start_time is t and step_active is false (the parameters and
\* step_start_time stay), so that a manual step in flight delivers no more
\* current at any time.
C8_SetMode ==
    [][last_op' = "set_mode" =>
         IF args'[1] \notin {"OFF", "CONSTANT", "STEP", "PULSE"}
         THEN stim' = stim
         ELSE /\ stim' = [stim EXCEPT !.mode = args'[1],
                                      !.protocol_start_time = args'[2],
                                      !.step_active = FALSE]
              /\ stim'.mode = args'[1]
              /\ stim'.protocol_start_time = args'[2]
              /\ ~stim'.step_active
              /\ stim'.mode = "STEP" =>
                     \A t \in StimTimes : current_at(stim', t)[1] = 0]_vars

\* set_mode("STEP", 102.5 ms) was called after a step of amplitude 40 had
\* been triggered at 100 ms: the step is no longer active
C8_Witness ==
    /\ last_op = "set_mode"
    /\ args[1] = "STEP"
    /\ stim.mode = "STEP"
    /\ ~stim.step_active
    /\ stim.amplitude = 40
    /\ stim.step_start_time = 20000
    /\ args[2] = 20500

\* C10, the part that holds: in STEP mode current_at(t) returns amplitude exactly when
\* step_active and 0 <= t - step_start_time < step_duration, and 0 otherwise;
\* once the step is inactive every call returns 0 until trigger_step.
C10_StepValue ==
    [][last_op' = "current_at" /\ stim.mode = "STEP" =>
         LET rel == args'[1] - stim.step_start_time
         IN  /\ ret' = IF stim.step_active /\ 0 <= rel /\ rel < stim.step_duration
                       THEN stim.amplitude ELSE 0
             /\ ~stim.step_active => ~stim'.step_active]_vars

\* C10: in STEP mode current_at(t) returns amplitude exactly when step_active
\* and 0 <= t - step_start_time < step_duration, and 0 otherwise; it sets
\* step_active false only once the window has elapsed, that is when
\* t - step_start_time >= step_duration; an inactive step stays inactive and
\* every call returns 0 until trigger_step.
C10_StepWindow ==
    [][last_op' = "current_at" /\ stim.mode = "STEP" =>
         LET rel == args'[1] - stim.step_start_time
         IN  /\ ret' = IF stim.step_active /\ 0 <= rel /\ rel < stim.step_duration
                       THEN stim.amplitude ELSE 0
             /\ ~stim.step_active => ~stim'.step_active
             /\ (stim.step_active /\ ~stim'.step_active) =>
                    rel >= stim.step_duration]_vars

\* the value C11 gives current_at(t) in PULSE mode, frequency in Hz, times in
\* time units (1000 ms are 1000 * UnitsPerMs units)
PulseValue(st, t) ==
    IF st.frequency > 0 /\ t >= st.protocol_start_time
    THEN IF (t - st.protocol_start_time) % ((1000 * UnitsPerMs) \div st.frequency)
              < Min(st.pulse_width, (1000 * UnitsPerMs) \div st.frequency)
         THEN st.amplitude ELSE 0
    ELSE 0

\* C11: in PULSE mode with frequency > 0 and t >= protocol_start_time,
\* current_at(t) is amplitude if (t - protocol_start_time) mod (1000/frequency)
\* < min(pulse_width, 1000/frequency) and 0 otherwise, so that it has the
\* period 1000/frequency; it is 0 when frequency <= 0 or t is before
\* protocol_start_time; the call changes no stimulator state; with frequency
\* 10, width 5 and amplitude 20 the offsets 0, 6 and 100 ms give 20, 0, 20.
C11_Pulse ==
    /\ [](stim.mode = "PULSE" =>
            /\ \A t \in StimTimes :
                  /\ current_at(stim, t) = <<PulseValue(stim, t), stim>>
                  /\ (stim.frequency > 0 /\ t >= stim.protocol_start_time) =>
                        current_at(stim, t + (1000 * UnitsPerMs) \div stim.frequency)[1]
                          = current_at(stim, t)[1]
            /\ LET st == [stim EXCEPT !.frequency = 10, !.amplitude = 20,
                                      !.pulse_width = 5 * UnitsPerMs]
                    p == st.protocol_start_time
               IN  /\ current_at(st, p)[1] = 20
                   /\ current_at(st, p + 6 * UnitsPerMs)[1] = 0
                   /\ current_at(st, p + 100 * UnitsPerMs)[1] = 20)
    /\ [][last_op' = "current_at" /\ stim.mode = "PULSE" =>
            /\ ret' = PulseValue(stim, args'[1])
            /\ stim' = stim]_vars

\* current_at(t) in PULSE mode, frequency 10, with the phase origin moved to
\* 2.5 ms: t = 102.5 ms is the start of the second period, the pulse is on
C11_Witness ==
    /\ last_op = "current_at"
    /\ stim.mode = "PULSE"
    /\ stim.frequency = 10
    /\ stim.protocol_start_time = 500
    /\ args[1] = 20500
    /\ ret = stim.amplitude

(***************************************************************************)
(* Properties of the MainWindow, checked under SpecGui                     *)
(***************************************************************************)
FlagOf ==
    [atp_low |-> "flag_atp_low", ca_high |-> "flag_ca_high",
     mito_stress |-> "flag_mito_stress", integrity_low |-> "flag_integrity_low",
     damage_high |-> "flag_damage_high", cascade |-> "flag_cascade"]

\* the transition is the start of a run (toggle_run while stopped)
RunStarts == ~running /\ running' /\ time_ms' = 0 /\ run_log' = NoLog

\* C6: each of the six flags goes false -> true at most once per run, with
\* its notification logged at most once per run (logged exactly when the flag
\* is latched); a true flag is set back to false by no tick, stop, mode change,
\* kill or other operation, only by the reset of a run start, which clears
\* all six together.
C6_FlagsLatchOnce ==
    /\ [](\A k \in DOMAIN FlagOf :
            /\ run_log[k] <= 1
            /\ run_log[k] = 1 <=> neuron[FlagOf[k]])
    /\ [][\A k \in DOMAIN FlagOf :
            /\ (neuron[FlagOf[k]] /\ ~neuron'[FlagOf[k]]) =>
                   (RunStarts /\ \A f \in FlagNames : ~neuron'[f])
            /\ (~neuron[FlagOf[k]] /\ neuron'[FlagOf[k]]) =>
                   (~RunStarts /\ run_log'[k] = run_log[k] + 1)]_vars

\* a second tick has ended on a living neuron with ATP still below 0.3 and the
\* atp-low flag latched: the notification has been logged once
C6_Witness ==
    /\ ticks = 2
    /\ running
    /\ ~neuron.dead
    /\ neuron.ATP < 300000
    /\ neuron.flag_atp_low
    /\ run_log["atp_low"] = 1

\* C7: when the neuron becomes dead while the orchestrator is running, no
\* further Neuron.step call is executed, neither in the rest of the tick nor
\* in a later tick, until a new run is started; the tick that finds the
\* neuron dead clears the run flag and logs "cell has died" once.
C7_DeathHaltsStepping ==
    /\ [](stepped_dead = 0)
    /\ [](run_log["died"] <= 1)
    /\ [][ticks' # ticks /\ neuron'.dead =>
            ~running' /\ run_log'["died"] = 1]_vars

\* C7, the part the tick's end guarantees: a tick that ends with the neuron
\* dead clears the run flag and has logged "cell has died" exactly once.
C7_DeathEndsRun ==
    /\ [](run_log["died"] <= 1)
    /\ [][ticks' # ticks /\ neuron'.dead =>
            ~running' /\ run_log'["died"] = 1]_vars

\* the neuron died inside a tick by a failure threshold (not by kill_cell)
C7_Witness ==
    /\ neuron.dead
    /\ ~running
    /\ run_log["died"] = 1
    /\ ticks = 2
    /\ stepped_dead > 0
    /\ stepped_dead < steps_to_run(10)

\* C9: deliver_step_pulse while the mode is not STEP, or while not running,
\* changes nothing (step_active, step_start_time, last_step_time_ms,
\* step_recovery_logged, the whole stimulator): trigger_step is not called.
C9_RejectedStepIsNoOp ==
    [][/\ last_op' \in {"deliver_step_pulse: not in STEP mode",
                        "deliver_step_pulse: stopped",
                        "deliver_step_pulse: delivered"}
       /\ (stim.mode # "STEP" \/ ~running)
       => /\ stim' = stim
          /\ last_step_time_ms' = last_step_time_ms
          /\ step_recovery_logged' = step_recovery_logged
          /\ neuron' = neuron
          /\ last_op' # "deliver_step_pulse: delivered"]_vars

\* deliver_step_pulse was rejected in STEP mode, after a run, because the
\* run is stopped
C9_Witness ==
    /\ last_op = "deliver_step_pulse: stopped"
    /\ stim.mode = "STEP"
    /\ ~running
    /\ ~stim.step_active
    /\ ticks > 0

\* C12: a run start resets the stimulator with the neuron: right after the
\* start no manual step is in flight and protocol_start_time is not later
\* than the simulated time, which restarts at 0, so that throughout every run
\* protocol_start_time <= time_ms.
C12_StimResetAtStart ==
    /\ [](running => stim.protocol_start_time <= time_ms)
    /\ [][RunStarts => ~stim'.step_active]_vars

\* a run has just started in PULSE mode with the phase origin of the earlier
\* run: the pulses stay off until the simulated time reaches the stale origin
C12_Witness ==
    /\ running
    /\ time_ms = 0
    /\ stim.mode = "PULSE"
    /\ stim.protocol_start_time > 0
    /\ current_at(stim, time_ms)[1] = 0

\* a step pulse has been delivered and its recovery has not been notified
RecoveryArmed == last_step_time_ms # None /\ ~step_recovery_logged

StepsToRun(factor) ==
    LET k == round(timer_interval * factor, dt * 10)
    IN  IF k = 0 /\ factor > 0 THEN 1 ELSE k

C14_WitnessIdle ==
    /\ last_op = "update_loop: not running"
    /\ ~running
    /\ ticks > 0
    /\ steps_run > 0

(***************************************************************************)
(* Properties of the DAQ, checked under SpecDaq                            *)
(***************************************************************************)

\* C15: acquire_sample and quantize return, for every input, a value inside
\* the configured range [-100, 100] that lies on the grid
\* min + k * (range / 2^bits), k an integer; with noise level 0 two calls of
\* acquire_sample with the same true voltage return the same value, and so
\* do two calls of quantize with the same value.
C15_DaqRange ==
    /\ [](last_op \in {"quantize", "acquire_sample"} =>
            LET min_v == daq.voltage_range[1]
                max_v == daq.voltage_range[2]
                steps == 2 ^ daq.adc_bits
            IN  /\ min_v * steps <= ret /\ ret <= max_v * steps
                /\ \E k \in 0 .. steps :
                      ret = min_v * steps + k * (max_v - min_v))
    /\ [][/\ last_op = "acquire_sample" /\ last_op' = "acquire_sample"
          /\ daq.noise_level = 0 /\ args' = args
          => ret' = ret]_vars
    /\ [](last_op = "quantize" => ret = quantize(DaqInit, args[1]))
    /\ [][daq'.adc_bits = daq.adc_bits
          /\ daq'.voltage_range = daq.voltage_range]_vars

\* a noisy sample of a true voltage 200 mV above the range was returned as
\* the top of the range, after an earlier call moved numpy's generator
C15_Witness ==
    /\ last_op = "acquire_sample"
    /\ args = <<300 * VS>>
    /\ daq.noise_level > 0
    /\ np_rng # 0
    /\ ret = 100 * VS * 2 ^ daq.adc_bits

(***************************************************************************)
(* Properties of the Neuron's trajectory, checked under SpecRun            *)
(***************************************************************************)

\* the calcium a living step leaves when the spike edge is taken between the
\* voltage the step starts from and the voltage after its update
CaOfCrossing ==
    calcium([neuron EXCEPT !.prev_v = neuron.v, !.v = neuron'.v], args'[1]).Ca

\* C16: in a step on a living neuron Ca is incremented by 0.02 exactly when
\* the voltage the step starts from is negative and the voltage after the
\* step's update is non-negative, so that each upward zero crossing of v
\* produces exactly one Ca increment, never two.
C16_OneIncrementPerCrossing ==
    [][last_op' = "step" /\ ~neuron.dead /\ ~neuron'.dead =>
          neuron'.Ca = CaOfCrossing]_vars

\* the first upward crossing of a run: before it Ca was 0, two steps later v
\* has been non-negative after two steps in a row and Ca holds more than one
\* increment of 0.02
C16_Witness ==
    /\ last_op = "step"
    /\ ~neuron.dead
    /\ calls < 400
    /\ neuron.prev_v >= 0 /\ neuron.v >= 0
    /\ neuron.Ca > 300

\* the neuron of the step being taken after its ATP balance, and after its
\* damage / health update
AfterAtp ==
    atp(calcium(membrane(neuron, args'[1], args'[2]), args'[1]),
        args'[1], args'[2])
AfterHealth == damage_health(mitochondria(AfterAtp, args'[1], args'[2]), args'[1])

\* C17: a living neuron becomes dead in a normal step (kill_mode false) if
\* and only if after the update ATP <= 0.001 or health <= 0; in every
\* reachable state with dead = false, ATP > 0.001 and health > 0.
C17_DeathIff ==
    /\ [](~neuron.dead => neuron.ATP > 1000 /\ neuron.health > 0)
    /\ [][last_op' = "step" /\ ~neuron.dead /\ ~args'[3] =>
            (neuron'.dead <=>
                AfterAtp.ATP <= 1000 \/ AfterHealth.health <= 0)]_vars

\* the neuron died in a step under the hyperpolarising current: ATP was
\* still far above 0.001 (no spike ever raised Ca), health had run down to 0
C17_Witness ==
    /\ neuron.dead
    /\ last_op = "step"
    /\ args = <<dt, -16, FALSE>>
    /\ neuron.Ca = 10 * CS
    /\ neuron.prev_v < -80 * VS

\* the neuron died in a step under the strong depolarising current, of ATP
\* exhaustion
C17_WitnessAtp ==
    /\ neuron.dead
    /\ last_op = "step"
    /\ args = <<dt, 40, FALSE>>

\* C18: when a step kills the neuron because ATP <= 0.001 after the ATP
\* balance, the voltage computed by that step's voltage / pump update is
\* retained: v after the step and the value step returns equal it.
C18_VoltageRetained ==
    [][/\ last_op' = "step" /\ ~neuron.dead /\ ~args'[3]
       /\ AfterAtp.ATP <= 1000
       => neuron'.v = AfterAtp.v /\ ret' = AfterAtp.v]_vars

\* the step that exhausted ATP started from a membrane at -70.9 mV and left
\* and returned v = 0
C18_Witness ==
    /\ neuron.dead
    /\ last_op = "step"
    /\ args = <<dt, 40, FALSE>>
    /\ neuron.prev_v < -70 * VS
    /\ neuron.v = 0
    /\ ret = 0

(***************************************************************************)
(* The dead neuron, checked under Spec                                     *)
(***************************************************************************)

\* C19: a step on a dead neuron changes only v: m, h, n, prev_v, ATP, Ca,
\* mito, integrity, damage, health, dead and the six event flags are
\* unchanged, so in every reachable dead state ATP = 0, mito = 0, Ca = 10,
\* integrity = 0, damage = 100 and health = 0, until reset.
C19_DeadStepFrame ==
    /\ [][last_op' = "step" /\ neuron.dead =>
            neuron' = [neuron EXCEPT !.v = neuron'.v]]_vars
    /\ [](neuron.dead =>
            /\ neuron.ATP = 0 /\ neuron.mito = 0 /\ neuron.Ca = 10 * CS
            /\ neuron.integrity = 0 /\ neuron.damage = 100 * PS
            /\ neuron.health = 0)
    /\ [][neuron.dead /\ ~neuron'.dead => last_op' = "reset"]_vars

\* kill, then two steps of the dead neuron, the second with dt > 0: v holds
\* two draws of jitter (0.5 mV and 0.25 mV), less the decay in between
C19_Witness ==
    /\ neuron.dead
    /\ last_op = "step"
    /\ calls = 3
    /\ args[1] > 0
    /\ neuron.v > 700

(***************************************************************************)
(* The sampling cadence, checked under SpecLoop                            *)
(***************************************************************************)

\* floor(N * dt / plot_dt_ms) for the N steps executed since the run started
SamplesDue == (steps_run * dt) \div plot_dt_ms

\* the timestamps of a history rise strictly
Increasing(q) == \A i \in 1 .. Len(q) - 1 : q[i] < q[i + 1]

KeepLast(q, cap) ==
    IF cap = None \/ Len(q) <= cap THEN q
    ELSE SubSeq(q, Len(q) - cap + 1, Len(q))

\* a holds the most recent entries of b, in order
IsSuffix(a, b) ==
    /\ Len(a) <= Len(b)
    /\ a = SubSeq(b, Len(b) - Len(a) + 1, Len(b))

\* the entries a tick has appended to the history named k: meta_t .. are
\* plain lists, never trimmed during a run
Appended(k) == SubSeq(hist'[k], Len(hist[k]) + 1, Len(hist'[k]))

\* C21: the live voltage window never holds more than its capacity
\* (window_sec * 1000 / plot_dt_ms samples) and, when full, an append drops
\* the oldest sample, so that it always contains the most recent samples in
\* order; the long history obeys the same rule when a retention length is
\* set and is unbounded otherwise; changing the window width or the
\* retention length keeps the most recent samples that fit; no append,
\* eviction, resize or clear changes a field of the neuron.
C21_HistoryBuffers ==
    /\ [](/\ buf.plot_buffer_size
               = (buf.window_sec * UnitsPerMs) \div plot_dt_ms
           /\ Len(hist.t_data) <= buf.plot_buffer_size
           /\ Len(hist.v_data) = Len(hist.t_data)
           /\ Len(hist.v_full) = Len(hist.t_full)
           /\ buf.vm_history_seconds # None =>
                 Len(hist.t_full)
                     <= (buf.vm_history_seconds * UnitsPerMs) \div plot_dt_ms
           /\ IsSuffix(hist.t_data, hist.meta_t)
           /\ IsSuffix(hist.t_full, hist.meta_t)
           /\ (IsSuffix(hist.v_data, hist.v_full)
                 \/ IsSuffix(hist.v_full, hist.v_data))
           /\ sample(Win, neuron.v).neuron = neuron)
    /\ [][ticks' = ticks + 1 =>
            /\ hist'.t_data = KeepLast(hist.t_data \o Appended("meta_t"),
                                       buf.plot_buffer_size)
            /\ hist'.t_full = KeepLast(hist.t_full \o Appended("meta_t"),
                                       buf.vm_history_maxlen)
            /\ buf.vm_history_seconds = None =>
                  Len(hist'.t_full)
                      = Len(hist.t_full) + Len(Appended("meta_t"))]_vars
    /\ [][last_op' = "set_voltage_window" =>
            /\ hist'.t_data = KeepLast(hist.t_data, buf'.plot_buffer_size)
            /\ hist'.v_data = KeepLast(hist.v_data, buf'.plot_buffer_size)
            /\ \A k \in HistNames \ {"t_data", "v_data"} : hist'[k] = hist[k]
            /\ neuron' = neuron]_vars
    /\ [][last_op' = "set_voltage_history_length" =>
            /\ hist'.t_full = KeepLast(hist.t_full,
                   IF buf'.vm_history_seconds = None THEN None
                   ELSE (buf'.vm_history_seconds * UnitsPerMs) \div plot_dt_ms)
            /\ hist'.v_full = KeepLast(hist.v_full,
                   IF buf'.vm_history_seconds = None THEN None
                   ELSE (buf'.vm_history_seconds * UnitsPerMs) \div plot_dt_ms)
            /\ \A k \in HistNames \ {"t_full", "v_full"} : hist'[k] = hist[k]
            /\ neuron' = neuron]_vars
    /\ [][RunStarts =>
            /\ hist' = NoHist
            /\ buf'.plot_buffer_size = buf.plot_buffer_size
            /\ neuron' = reset_log_flags(reset)]_vars

\* the 0.1 s window was selected before the run started; the sixth tick
\* appended samples 101 .. 120 to the full window, which now holds samples
\* 21 .. 120
C21_Witness ==
    /\ running
    /\ ticks = 6
    /\ last_op = "gui"
    /\ buf.plot_buffer_size = 100
    /\ Len(hist.meta_t) = 120
    /\ Len(hist.t_data) = 100
    /\ hist.t_data[1] = 21 * plot_dt_ms
    /\ hist.t_data[100] = 120 * plot_dt_ms

\* the window was narrowed from 2 s to 0.1 s while it held 120 samples and
\* the history was cut to 0.05 s: 100 and 50 samples are left
C21_WitnessResize ==
    /\ last_op = "set_voltage_history_length"
    /\ buf.plot_buffer_size = 100
    /\ Len(hist.meta_t) = 120
    /\ Len(hist.t_data) = 100
    /\ Len(hist.t_full) = 50
    /\ hist.t_full[1] = 71 * plot_dt_ms

=============================================================================
